---- MODULE Spec2Model ----
(***************************************************************************)
(* Model of the useContactForm hook (useContactForm.ts) and the transport  *)
(* utilities it uses (utils.ts).  One hook instance; every sendEmail call  *)
(* is a chain of network attempts.  An action is one turn of the event     *)
(* loop: the task that delivers a call or an event (a response, a body, a  *)
(* timer) together with every promise continuation that it runs.           *)
(***************************************************************************)
EXTENDS Integers, Sequences, FiniteSets, TLC

\* ---------------------------------------------------------------- bounds
MaxChains  == 2      \* sendEmail calls made on the instance
MaxRetries == 3      \* largest value of the `retries` option explored
MaxFetches == 4      \* fetch calls the started chains may need together
MaxAttemptIndex == 10  \* largest attempt index given to getExponentialBackoff
MaxEmailLen == 6     \* longest string given to isValidEmail
MaxFieldLen == 1     \* longest string tried in every field of validateContactForm
MaxValueLen == 2     \* longest string tried in every escaped position of a template

Chains == 1..MaxChains

\* ------------------------------------------------------- values and types
\* A nullable JavaScript value is a sequence of length 0 (null / undefined)
\* or 1.
Null == <<>>
Some(x) == <<x>>

\* Every thrown or stored error value.  name = "" and code = "" stand for an
\* undefined property, status = 0 for an undefined (falsy) status, and
\* isObject is `typeof error === 'object'`.
MkError(name, message, isObject, code, status, errors) ==
  [name |-> name, message |-> message, isObject |-> isObject,
   code |-> code, status |-> status, errors |-> errors]

\* new Error(msg) with the given name
JsError(name, message) == MkError(name, message, TRUE, "", 0, Null)

\* values the transport's fetch promise rejects with (besides an abort)
NetworkFailure == JsError("TypeError", "Network failure")
StringError    == MkError("", "", FALSE, "", 0, Null)
ThrownByFetch  == {NetworkFailure, StringError}

\* the DOMException a fetch rejects with when its signal is aborted
AbortError  == JsError("AbortError", "The operation was aborted")
\* the SyntaxError response.json() rejects with on a malformed body
SyntaxError == JsError("SyntaxError", "Unexpected token < in JSON")

\* Responses of the remote endpoint.  jsonOk tells whether raw parses as
\* JSON and jsonNull whether it parses as the value null;
\* message/code/errors are the fields of the parsed body.
MkResponse(status, contentType, raw, jsonOk, jsonNull, message, code, errors) ==
  [status |-> status, contentType |-> contentType, raw |-> raw,
   jsonOk |-> jsonOk, jsonNull |-> jsonNull,
   message |-> message, code |-> code, errors |-> errors]

JsonType == "application/json"
JsonUtf8 == "application/json; charset=utf-8"

Responses ==
  { MkResponse(200, JsonUtf8, "{success:true}", TRUE, FALSE, "", "", Null),
    MkResponse(200, JsonType, "<html>", FALSE, FALSE, "", "", Null),
    MkResponse(200, "", "OK", FALSE, FALSE, "", "", Null),
    MkResponse(400, JsonType, "{message:Invalid}", TRUE, FALSE, "Invalid", "", Null),
    MkResponse(400, JsonType, "null", TRUE, TRUE, "", "", Null),
    MkResponse(500, JsonType, "{message:Server error}", TRUE, FALSE, "Server error", "", Null),
    MkResponse(500, JsonType, "null", TRUE, TRUE, "", "", Null) }

\* what a mocked fetch resolves with when it is given no Response to return:
\* undefined, as in the test 'should cancel ongoing request'
\* (useContactForm.test.ts 709-747)
Undefined == [undefined |-> TRUE]

\* values the transport's fetch promise resolves with
Resolutions == Responses \cup {Undefined}

\* the TypeError of `response.ok` on undefined (useContactForm.ts 101)
NotAResponse == JsError("TypeError", "Cannot read properties of undefined (reading 'ok')")

\* the TypeError response.json() / response.text() rejects with when the body
\* cannot be read, as after an abort that came before the read began
BodyUnusable == JsError("TypeError", "Body is unusable: Body has already been read")

\* how the read of a response body ends: the body is delivered, the read
\* rejects with an AbortError, or it rejects because the body is unusable
ReadOutcomes == {"read", "aborted", "unusable"}

\* Response.ok
Ok(response) == response.status >= 200 /\ response.status <= 299

\* contentType && contentType.includes('application/json'), over the content
\* types of Responses
IsJson(response) == response.contentType \in {JsonType, JsonUtf8}

\* results a configured validator returns
FieldErrors == Some([f \in {"email"} |-> <<"Email is invalid">>])
ValidationResults ==
  { [valid |-> TRUE, errors |-> Null],
    [valid |-> FALSE, errors |-> FieldErrors] }

\* ------------------------------------------------------------- utilities
\* TimeoutError built without its message
TimeoutErrorBlank == JsError("Error", "")

\* createTimeoutPromise: the value its promise rejects with
TimeoutError == JsError("Error", "Request timeout")

\* createNetworkError
createNetworkError(error) ==
  MkError("", IF error.message # "" THEN error.message ELSE "Network error occurred",
          TRUE, "NETWORK_ERROR", 0, Null)

\* the TypeError of `errorData.message` when the JSON body is the value null
\* (templates.ts 149)
NullBody == JsError("TypeError", "Cannot read properties of null (reading 'message')")

\* how a call ends: it returns a value or throws an error
Returned(value) == [threw |-> FALSE, value |-> value]
Threw(error)    == [threw |-> TRUE, value |-> error]

\* parseErrorResponse; readFails: the read of the body rejected.  The try
\* block covers the read only (templates.ts 138-147): the properties of
\* errorData are read after it (149-154), which throws when the body parsed
\* as null.
parseErrorResponse(response, readFails) ==
  LET failed    == readFails \/ (IsJson(response) /\ ~response.jsonOk)
      errorData == IF failed
                     THEN [message |-> "An error occurred", code |-> "", errors |-> Null]
                   ELSE IF IsJson(response)
                     THEN [message |-> response.message, code |-> response.code,
                           errors |-> response.errors]
                   ELSE [message |-> response.raw, code |-> "", errors |-> Null]
      message   == IF errorData.message # "" THEN errorData.message
                   ELSE "Request failed with status " \o ToString(response.status)
  IN  IF ~failed /\ IsJson(response) /\ response.jsonNull
        THEN Threw(NullBody)
        ELSE Returned(MkError("", message, TRUE, errorData.code, response.status,
                              errorData.errors))

\* A JavaScript number that is a ratio of two integers: the fraction
\* num / den in lowest terms, den > 0.
RECURSIVE GCD(_, _)
GCD(a, b) == IF b = 0 THEN a ELSE GCD(b, a % b)
Number(num, den) ==
  LET g == GCD(num, den) IN
  IF g = 0 THEN [num |-> 0, den |-> 1] ELSE [num |-> num \div g, den |-> den \div g]
Whole(i) == Number(i, 1)

\* 2^n for n >= 0
RECURSIVE Pow2(_)
Pow2(n) == IF n <= 0 THEN 1 ELSE 2 * Pow2(n - 1)

\* getExponentialBackoff with the attempt index as the factor
getLinearBackoff(attempt, baseDelay) == Whole(baseDelay * (attempt + 1))

\* getExponentialBackoff: baseDelay * Math.pow(2, attempt); Math.pow(2, n) is
\* 1 / 2^(-n) for a negative n
getExponentialBackoff(attempt, baseDelay) ==
  IF attempt >= 0 THEN Number(baseDelay * Pow2(attempt), 1)
  ELSE Number(baseDelay, Pow2(0 - attempt))

\* A string is a sequence of characters.  Chars has a letter, the two
\* characters the e-mail pattern names, and a white-space character.
Chars == {"a", ".", "@", " "}
WhiteSpace == {" "}
Strings(n) == UNION {[1..k -> Chars] : k \in 0..n}

\* String.prototype.trim
RECURSIVE trimStart(_)
trimStart(s) ==
  IF Len(s) > 0 /\ s[1] \in WhiteSpace THEN trimStart(SubSeq(s, 2, Len(s))) ELSE s
RECURSIVE trimEnd(_)
trimEnd(s) ==
  IF Len(s) > 0 /\ s[Len(s)] \in WhiteSpace THEN trimEnd(SubSeq(s, 1, Len(s) - 1)) ELSE s
trim(s) == trimEnd(trimStart(s))

\* s[from..to] matches [^\s@]+
Plain(s, from, to) ==
  from <= to /\ \A k \in from..to : s[k] \notin WhiteSpace \cup {"@"}

\* isValidEmail that asks for no dot after the @
isValidEmailWithoutDot(email) ==
  \E i \in 1..Len(email) :
    email[i] = "@" /\ Plain(email, 1, i - 1) /\ Plain(email, i + 1, Len(email))

\* isValidEmail: /^[^\s@]+@[^\s@]+\.[^\s@]+$/ .test(email)
isValidEmail(email) ==
  \E i, j \in 1..Len(email) :
    /\ email[i] = "@" /\ email[j] = "."
    /\ Plain(email, 1, i - 1)
    /\ Plain(email, i + 1, j - 1)
    /\ Plain(email, j + 1, Len(email))

\* !value || value.trim().length === 0, for an optional string property
\* (Null when the property is absent)
Missing(value) == value = Null \/ Len(value[1]) = 0 \/ Len(trim(value[1])) = 0

\* the errors object of validateContactForm: the messages of the fields in error
FieldMessages(data) ==
  LET invalid == {f \in {"name", "email", "message"} :
                    \/ Missing(data[f])
                    \/ f = "email" /\ ~isValidEmail(data[f][1])} IN
  [f \in invalid |->
     IF f = "name" THEN <<"Name is required">>
     ELSE IF f = "message" THEN <<"Message is required">>
     ELSE IF Missing(data[f]) THEN <<"Email is required">>
     ELSE <<"Email is invalid">>]

\* validateContactForm that stops at the first field in error
validateFirstError(data) ==
  LET errors == FieldMessages(data)
      first  == IF "name" \in DOMAIN errors THEN {"name"}
                ELSE IF "email" \in DOMAIN errors THEN {"email"}
                ELSE DOMAIN errors IN
  [valid  |-> DOMAIN errors = {},
   errors |-> IF DOMAIN errors # {} THEN Some([f \in first |-> errors[f]]) ELSE Null]

\* validateContactForm
validateContactForm(data) ==
  LET errors == FieldMessages(data) IN
  [valid  |-> DOMAIN errors = {},
   errors |-> IF DOMAIN errors # {} THEN Some(errors) ELSE Null]

\* -------------------------------------------------------------- templates
\* A rendered document is the sequence of its pieces, in order: a piece is a
\* run of template text, an option interpolated as it is, or one character of
\* an escaped value; the document is their concatenation.

\* characters of the values given to the templates
HtmlChars == {"a", "&", "<", ">", "\"", "'"}
HtmlStrings(n) == UNION {[1..k -> HtmlChars] : k \in 0..n}

\* .replace(/ch/g, by): every occurrence of `ch`, in one pass
RECURSIVE Replace(_, _, _)
Replace(s, ch, by) ==
  IF s = <<>> THEN <<>>
  ELSE (IF Head(s) = ch THEN by ELSE <<Head(s)>>) \o Replace(Tail(s), ch, by)

Amp  == <<"&", "a", "m", "p", ";">>
Lt   == <<"&", "l", "t", ";">>
Gt   == <<"&", "g", "t", ";">>
Quot == <<"&", "q", "u", "o", "t", ";">>
Apos == <<"&", "#", "3", "9", ";">>

escapeHtmlAmpLast(input) ==
  Replace(Replace(Replace(Replace(Replace(input, "<", Lt), ">", Gt), "\"", Quot), "'", Apos),
          "&", Amp)
escapeHtml(input) ==
  Replace(Replace(Replace(Replace(Replace(input, "&", Amp), "<", Lt), ">", Gt), "\"", Quot),
          "'", Apos)

\* a string value that is neither absent nor empty
Truthy(value) == value # Null /\ value[1] # <<>>

RowOpen  == "<p style=\"margin:8px 0;\"><strong>"
RowMid   == ":</strong> "
RowClose == "</p>"
fieldAlways(label, value) ==
  <<RowOpen>> \o escapeHtml(label) \o <<RowMid>>
    \o escapeHtml(IF value = Null THEN <<>> ELSE value[1]) \o <<RowClose>>
field(label, value) ==
  IF Truthy(value)
    THEN <<RowOpen>> \o escapeHtml(label) \o <<RowMid>> \o escapeHtml(value[1]) \o <<RowClose>>
    ELSE <<>>

NameLabel  == <<"N", "a", "m", "e">>
EmailLabel == <<"E", "m", "a", "i", "l">>
PhoneLabel == <<"P", "h", "o", "n", "e">>

HeadingOpen    == "<h2 style=\"margin:0 0 8px 0;color:"
HeadingStyle   == ";font-weight:600;\">"
HeadingClose   == "</h2>"
DefaultHeading == ";font-weight:600;\">New Contact Form Submission</h2>"
subjectBlock(subject, brand) ==
  IF Truthy(subject)
    THEN <<HeadingOpen, brand, HeadingStyle>> \o escapeHtml(subject[1]) \o <<HeadingClose>>
    ELSE <<HeadingOpen, brand, DefaultHeading>>

MessageOpen  == "<div style=\"background:"
MessageStyle == ";white-space:pre-wrap;border-radius:4px;\">"
MessageClose == "</div>"
messageBlock(message, panel, brand) ==
  <<MessageOpen, panel, ";padding:16px;border-left:4px solid ", brand, MessageStyle>>
    \o escapeHtml(IF message = Null THEN <<>> ELSE message[1]) \o <<MessageClose>>

Themes == {"minimal", "branded", "dark"}
baseStyles(brand) ==
  [minimal |-> [bg |-> "#ffffff", text |-> "#111827", panel |-> "#f9fafb", border |-> "#e5e7eb"],
   branded |-> [bg |-> "#ffffff", text |-> "#111827", panel |-> "#ffffff", border |-> brand],
   dark    |-> [bg |-> "#0b0f17", text |-> "#e5e7eb", panel |-> "#111827", border |-> "#374151"]]

DefaultBrand  == "#4F46E5"
DefaultFooter ==
  <<"S", "e", "n", "t", " ", "v", "i", "a", " ", "u", "s", "e", "-",
    "c", "o", "n", "t", "a", "c", "t", "-", "f", "o", "r", "m">>
FooterStyle == ";\">"
FooterClose == "</p>\n    </div>\n  </body>\n</html>"

logoBlock(logoUrl) ==
  IF logoUrl # Null /\ logoUrl[1] # ""
    THEN << "<div style=\"text-align:center;margin-bottom:16px;\"><img src=\"", logoUrl[1],
            "\" alt=\"Logo\" style=\"max-height:40px\"/></div>" >>
    ELSE <<>>

renderHtmlTemplate(data, options) ==
  LET theme      == IF options.theme = Null THEN "minimal" ELSE options.theme[1]
      brand      == IF options.brandColor = Null THEN DefaultBrand ELSE options.brandColor[1]
      footerText == IF options.footerText = Null THEN DefaultFooter ELSE options.footerText[1]
      styles     == baseStyles(brand)[theme]
  IN
  << "<!doctype html>\n<html>\n  <body style=\"margin:0;padding:24px;background:", styles.bg,
     ";color:", styles.text,
     ";font-family:system-ui,-apple-system,Segoe UI,Roboto,Ubuntu,Cantarell,Noto Sans,sans-serif;\">\n    <div style=\"max-width:640px;margin:0 auto;\">\n      " >>
    \o logoBlock(options.logoUrl)
    \o << "\n      " >>
    \o subjectBlock(data.subject, brand)
    \o << "\n      <div style=\"border:1px solid ", styles.border,
          ";border-radius:8px;padding:16px;margin-top:12px;background:",
          IF theme = "branded" THEN "#ffffff" ELSE styles.panel,
          ";\">\n        " >>
    \o field(NameLabel, data.name)
    \o << "\n        " >>
    \o field(EmailLabel, data.email)
    \o << "\n        " >>
    \o field(PhoneLabel, data.phone)
    \o << "\n        <div style=\"margin-top:16px;\">\n          <h3 style=\"margin:0 0 8px 0;\">Message</h3>\n          " >>
    \o messageBlock(data.message, styles.panel, brand)
    \o << "\n        </div>\n      </div>\n      <p style=\"margin-top:24px;font-size:12px;color:",
          IF theme = "dark" THEN "#9ca3af" ELSE "#6b7280", FooterStyle >>
    \o escapeHtml(footerText)
    \o << FooterClose >>

\* ------------------------------------------------------------------ state
VARIABLES
  retries,             \* option `retries`
  validate,            \* whether option `validate` is configured
  transformData,       \* whether option `transformData` is configured
  onSuccess,           \* what option `onSuccess` does when it is called:
                       \* "returns" or "throws"
  state,               \* useState: [loading, error, data, success]
  abortControllerRef,  \* useRef: Null or Some(<<chain, attempt>>)
  chains,              \* one record per sendEmail call
  lastSettled,         \* Some(the call that settled last), Null at the start
                       \* and after a reset
  lastStarted,         \* Some(<<chain, attempt>>) of the network attempt that
                       \* was started last, Null before the first
  utility              \* Some(the last call of an exported utility function,
                       \* with its arguments and its result); Null in the hook

hookVars == <<retries, validate, transformData, onSuccess, state, abortControllerRef, chains, lastSettled, lastStarted>>
vars == <<retries, validate, transformData, onSuccess, state, abortControllerRef, chains, lastSettled, lastStarted,
          utility>>

\* the argument of useState
InitialState == [loading |-> FALSE, error |-> Null, data |-> Null, success |-> FALSE]
\* ResetState that keeps the last response
ResetKeepingData == [loading |-> FALSE, error |-> Null, data |-> state.data, success |-> FALSE]

\* the argument of reset's setState
ResetState == [loading |-> FALSE, error |-> Null, data |-> Null, success |-> FALSE]
\* LoadingState that keeps the last response
LoadingKeepingData == [loading |-> TRUE, error |-> Null, data |-> state.data, success |-> FALSE]

\* the argument of sendEmail's first setState (useContactForm.ts 178-183)
LoadingState == [loading |-> TRUE, error |-> Null, data |-> Null, success |-> FALSE]
\* SuccessState without `loading: false`
SuccessStillLoading(responseData) ==
  [loading |-> state.loading, error |-> Null, data |-> Some(responseData), success |-> TRUE]

\* the arguments of sendEmail's other setState calls (useContactForm.ts 164-205)
SuccessState(responseData) ==
  [loading |-> FALSE, error |-> Null, data |-> Some(responseData), success |-> TRUE]
\* FailedState without `loading: false`
FailedStillLoading(error) ==
  [loading |-> state.loading, error |-> Some(error), data |-> Null, success |-> FALSE]

FailedState(error) ==
  [loading |-> FALSE, error |-> Some(error), data |-> Null, success |-> FALSE]

\* A sendEmail call that has not been made yet.
\*   pc        position of the chain: "unused", "fetch" (awaiting the race),
\*             "parseError" (awaiting the body in parseErrorResponse),
\*             "parseBody" (awaiting response.json() / response.text()),
\*             "sleep" (awaiting the backoff), "resume" (makeRequest has
\*             settled and sendEmail, suspended at its await, has not
\*             resumed yet), "settled"
\*   attempt   makeRequest's attempt argument
\*   aborted   the controller of the attempt in progress has been aborted
\*   returned  what makeRequest settled with
\*   fetches   number of fetch calls made
\*   response  the last Response received
\*   delay     the last backoff slept
\*   result    what sendEmail settled with
\*   callback  the callback sendEmail invoked
\*   passed    the argument it invoked the callback with
\*   steps     what sendEmail did in its last turn, in program order
\*   failed    number of attempts that ended in a 5xx response or in a
\*             thrown error other than an abort
\*   got5xx    number of attempts that received a 5xx response
\*   got2xx    number of attempts that received a 2xx response
\*   gotAbort  an attempt ended with an AbortError
\*   validation  what the configured validator returned for this call
\*   published   the state that sendEmail's terminal update set
\*   orphans     number of fetch calls that lost the race to the timeout and
\*               have not completed yet
\*   data        the argument of sendEmail
\*   checked     the argument `validate` was called with
\*   payload     transformedData, the argument of makeRequest
\*   transforms  number of calls of transformData
\*   began       what sendEmail did in its first turn, in program order
\*   bodies      the data serialised as the body of each fetch call, in order
\*   updates     the states sendEmail set in its last turn, in order
UnusedChain ==
  [pc |-> "unused", attempt |-> 0, aborted |-> FALSE,
   fetches |-> 0, returned |-> Null,
   response |-> Null, delay |-> Whole(0), result |-> Null, callback |-> "",
   passed |-> Null, steps |-> <<>>,
   failed |-> 0, got5xx |-> 0, got2xx |-> 0, gotAbort |-> FALSE,
   validation |-> Null, published |-> Null,
   orphans |-> 0,
   data |-> Null, checked |-> Null, payload |-> Null, transforms |-> 0,
   began |-> <<>>, bodies |-> <<>>, updates |-> <<>>]

Resolved(responseData) == Some([ok |-> TRUE, data |-> Some(responseData), error |-> Null])
Rejected(error) == Some([ok |-> FALSE, data |-> Null, error |-> Some(error)])

Init ==
  /\ retries \in 0..MaxRetries
  /\ validate \in BOOLEAN
  /\ transformData = FALSE
  /\ onSuccess = "returns"
  /\ state = InitialState
  /\ abortControllerRef = Null
  /\ chains = [c \in Chains |-> UnusedChain]
  /\ lastSettled = Null
  /\ lastStarted = Null
  /\ utility = Null

Set(c, rec) == [chains EXCEPT ![c] = rec]

\* the controller created by the current attempt of chain c
Controller(c) == Some(<<c, chains[c].attempt>>)

\* the chains that reached the network, and the fetch calls that `n` chains
\* can make with the configured retries
Started == {c \in Chains : chains[c].fetches > 0}
FetchBudget(n) == n * (retries + 1)

\* ------------------------------------------------------------ operations
\* cancelled that aborts every attempt awaiting the network
cancelledEvery(ref, chs) ==
  IF ref # Null
    THEN [chains |-> [c \in Chains |->
                        IF chs[c].pc \in {"fetch", "parseError", "parseBody"}
                          THEN [chs[c] EXCEPT !.aborted = TRUE]
                          ELSE chs[c]],
          ref |-> Null]
    ELSE [chains |-> chs, ref |-> ref]

\* cancel's effect on the handle `ref` and on the chains `chs`: abort() reaches
\* the attempt whose controller the handle is, while makeRequest has not
\* settled
cancelled(ref, chs) ==
  IF ref # Null
    THEN [chains |-> [c \in Chains |->
                        IF ref = Some(<<c, chs[c].attempt>>)
                             /\ chs[c].pc \in {"fetch", "parseError", "parseBody", "sleep"}
                          THEN [chs[c] EXCEPT !.aborted = TRUE]
                          ELSE chs[c]],
          ref |-> Null]
    ELSE [chains |-> chs, ref |-> ref]

\* cancel that also ends the loading state
cancelClearingLoading ==
  /\ chains' = cancelled(abortControllerRef, chains).chains
  /\ abortControllerRef' = cancelled(abortControllerRef, chains).ref
  /\ state' = [state EXCEPT !.loading = FALSE]
  /\ UNCHANGED <<utility, retries, validate, transformData, onSuccess, lastSettled, lastStarted>>

\* cancel that also resets the state
cancelResetting ==
  /\ chains' = cancelled(abortControllerRef, chains).chains
  /\ abortControllerRef' = cancelled(abortControllerRef, chains).ref
  /\ state' = ResetState
  /\ UNCHANGED <<utility, retries, validate, transformData, onSuccess, lastSettled, lastStarted>>

\* cancel that publishes the cancellation itself
cancelFailing ==
  /\ chains' = cancelled(abortControllerRef, chains).chains
  /\ abortControllerRef' = cancelled(abortControllerRef, chains).ref
  /\ state' = FailedState(createNetworkError(JsError("Error", "Request cancelled")))
  /\ UNCHANGED <<utility, retries, validate, transformData, onSuccess, lastSettled,
                 lastStarted>>

\* cancel (useContactForm.ts 72-77)
cancel ==
  /\ chains' = cancelled(abortControllerRef, chains).chains
  /\ abortControllerRef' = cancelled(abortControllerRef, chains).ref
  /\ UNCHANGED <<utility, retries, validate, transformData, onSuccess, state, lastSettled, lastStarted>>

\* reset that also cancels the request in flight
resetCancelling ==
  /\ state' = ResetState
  /\ lastSettled' = Null
  /\ chains' = cancelled(abortControllerRef, chains).chains
  /\ abortControllerRef' = Null
  /\ UNCHANGED <<utility, retries, validate, transformData, onSuccess, lastStarted>>

\* reset (useContactForm.ts 60-67)
reset ==
  /\ state' = ResetState
  /\ lastSettled' = Null
  /\ UNCHANGED <<utility, retries, validate, transformData, onSuccess, abortControllerRef, chains,
                 lastStarted>>

\* the data given to the c-th sendEmail call, what a configured
\* transformData makes of a value, and JSON.stringify
Form(c) == [form |-> c]
Transform(data) == [transformed |-> data]
Stringify(data) == [json |-> data]

\* StartAttempt that applies transformData again before every retry
StartAttemptTransforming(ch, attempt) ==
  [ch EXCEPT !.pc = "fetch", !.attempt = attempt, !.aborted = FALSE,
             !.fetches = @ + 1,
             !.bodies = Append(@, Stringify(IF attempt > 0 /\ transformData
                                              THEN Transform(ch.payload[1])
                                              ELSE ch.payload[1]))]

\* makeRequest up to its first await: a fresh controller, and fetch is called
\* with the data as its body (useContactForm.ts 84-99)
StartAttempt(ch, attempt) ==
  [ch EXCEPT !.pc = "fetch", !.attempt = attempt, !.aborted = FALSE,
             !.fetches = @ + 1,
             !.bodies = Append(@, Stringify(ch.payload[1]))]

\* option `retryDelay`, at its default (useContactForm.ts 41)
retryDelay == 1000

\* CanRetry with the comparison off by one
CanRetryOnceMore(attempt) == attempt <= retries

\* `attempt < retries` of both retry conditions
CanRetry(attempt) == attempt < retries

\* the 5xx retry condition (useContactForm.ts 105)
RetryOnStatus(status, attempt) == status >= 500 /\ CanRetry(attempt)

\* Caught with the abort test after the retry test
CaughtRetryFirst(error, attempt) ==
  IF attempt < retries /\ error.status = 0
    THEN [retry |-> TRUE, error |-> error]
  ELSE IF error.name = "AbortError"
    THEN [retry |-> FALSE, error |-> createNetworkError(JsError("Error", "Request cancelled"))]
  ELSE IF error.message # "" /\ error.isObject
    THEN [retry |-> FALSE, error |-> error]
  ELSE [retry |-> FALSE, error |-> createNetworkError(error)]

\* the catch block's decision (useContactForm.ts 124-142): retry, or the
\* error makeRequest rejects with
Caught(error, attempt) ==
  IF error.name = "AbortError"
    THEN [retry |-> FALSE, error |-> createNetworkError(JsError("Error", "Request cancelled"))]
  ELSE IF CanRetry(attempt) /\ error.status = 0
    THEN [retry |-> TRUE, error |-> error]
  ELSE IF error.message # "" /\ error.isObject
    THEN [retry |-> FALSE, error |-> error]
  ELSE [retry |-> FALSE, error |-> createNetworkError(error)]

\* Backoff computed from the index of the attempt to come
BackoffOfNextAttempt(ch) ==
  [ch EXCEPT !.pc = "sleep",
             !.delay = getExponentialBackoff(ch.attempt + 1, retryDelay)]

\* the backoff wait of both retry paths (useContactForm.ts 106-107, 132-133)
Backoff(ch) ==
  [ch EXCEPT !.pc = "sleep",
             !.delay = getExponentialBackoff(ch.attempt, retryDelay)]

\* what a throwing onSuccess callback throws
CallbackError == JsError("Error", "onSuccess failed")

\* what sendEmail settles with when makeRequest settled with `result`: an
\* exception of onSuccess is thrown inside the try block and caught by
\* sendEmail's own catch (useContactForm.ts 185-209)
Outcome(result) ==
  IF result[1].ok /\ onSuccess = "throws" THEN Rejected(CallbackError) ELSE result

\* CallbackArgument that hands onError a normalised copy of the error
CallbackArgumentNormalised(result) ==
  IF result[1].ok THEN result[1].data
  ELSE Some(createNetworkError(result[1].error[1]))

\* the argument of onSuccess / onError (useContactForm.ts 170, 195, 207)
CallbackArgument(result) ==
  IF result[1].ok THEN result[1].data ELSE result[1].error

\* TerminalSteps with the callback invoked before the state update
TerminalStepsCallbackFirst(result) ==
  << IF result[1].ok THEN "onSuccess" ELSE "onError", "setState", "settle" >>

\* the statements of sendEmail's last turn, in program order: setState, the
\* callback, then return / throw (useContactForm.ts 164-171, 188-196, 200-208)
TerminalSteps(result) ==
  IF result[1].ok /\ onSuccess = "throws"
    THEN << "setState", "onSuccess", "setState", "onError", "settle" >>
    ELSE << "setState", IF result[1].ok THEN "onSuccess" ELSE "onError", "settle" >>

\* the arguments of the setState calls of sendEmail's last turn, in order
Updates(result) ==
  (IF result[1].ok THEN << SuccessState(result[1].data[1]) >> ELSE << >>)
    \o (IF Outcome(result)[1].ok THEN << >>
        ELSE << FailedState(Outcome(result)[1].error[1]) >>)

\* the call after sendEmail's terminal state update and callback
\* (useContactForm.ts 164-171, 188-208)
Settled(ch, result, published) ==
  [ch EXCEPT !.pc = "settled", !.result = Outcome(result),
             !.published = Some(published),
             !.callback = IF Outcome(result)[1].ok THEN "onSuccess" ELSE "onError",
             !.passed = CallbackArgument(Outcome(result)),
             !.steps = TerminalSteps(result),
             !.updates = Updates(result)]
StateAfter(result) ==
  IF Outcome(result)[1].ok THEN SuccessState(result[1].data[1])
  ELSE FailedState(Outcome(result)[1].error[1])

\* Finish that clears the handle on the success path only
FinishClearingOnSuccess(c, ch, result) ==
  /\ abortControllerRef' = IF result[1].ok THEN Null ELSE abortControllerRef
  /\ chains' = Set(c, [ch EXCEPT !.pc = "resume", !.returned = result,
                                  !.aborted = FALSE])
  /\ UNCHANGED <<state, lastSettled, lastStarted>>

\* makeRequest settles with `result`: its finally block clears the handle
\* (useContactForm.ts 143-145).  sendEmail, suspended at its await, resumes in
\* a later turn.
Finish(c, ch, result) ==
  /\ abortControllerRef' = Null
  /\ chains' = Set(c, [ch EXCEPT !.pc = "resume", !.returned = result,
                                  !.aborted = FALSE])
  /\ UNCHANGED <<state, lastSettled, lastStarted>>

\* Resume that publishes the result of the most recently started call only
ResumeLatestOnly(c) ==
  /\ chains[c].pc = "resume"
  /\ state' = IF \A b \in Chains : b > c => chains[b].pc = "unused"
               THEN StateAfter(chains[c].returned) ELSE state
  /\ chains' = Set(c, Settled(chains[c], chains[c].returned, state'))
  /\ lastSettled' = Some(c)
  /\ UNCHANGED <<utility, retries, validate, transformData, onSuccess, abortControllerRef,
                 lastStarted>>

\* sendEmail resumes after `await makeRequest(...)`: the terminal state
\* update, the callback, and return / throw (useContactForm.ts 186-209)
Resume(c) ==
  /\ chains[c].pc = "resume"
  /\ state' = StateAfter(chains[c].returned)
  /\ chains' = Set(c, Settled(chains[c], chains[c].returned, state'))
  /\ lastSettled' = Some(c)
  /\ UNCHANGED <<utility, retries, validate, transformData, onSuccess, abortControllerRef,
                 lastStarted>>

\* Wait that publishes the failure of the attempt
WaitPublishing(c, ch) ==
  /\ chains' = Set(c, Backoff(ch))
  /\ state' = FailedStillLoading(NetworkFailure)
  /\ UNCHANGED <<abortControllerRef, lastSettled, lastStarted>>

\* the backoff starts
Wait(c, ch) ==
  /\ chains' = Set(c, Backoff(ch))
  /\ UNCHANGED <<abortControllerRef, state, lastSettled, lastStarted>>

\* makeRequest's catch block entered by chain c with `error`
Catch(c, ch, error) ==
  LET d == Caught(error, ch.attempt) IN
  IF d.retry THEN Wait(c, ch) ELSE Finish(c, ch, Rejected(d.error))

\* the counters of a chain after an attempt ended with a thrown error
Failed(ch) == [ch EXCEPT !.failed = @ + 1]

\* the counters of a chain after an attempt received `response`
Received(ch, response) ==
  IF Ok(response) THEN [ch EXCEPT !.got2xx = @ + 1, !.response = Some(response)]
  ELSE IF response.status >= 500
    THEN [ch EXCEPT !.got5xx = @ + 1, !.failed = @ + 1, !.response = Some(response)]
  ELSE [ch EXCEPT !.response = Some(response)]

\* ValidationError without the validator's field errors
ValidationErrorBare(validationResult) ==
  MkError("", "Validation failed", TRUE, "VALIDATION_ERROR", 0, Null)

\* the error sendEmail builds from a failed validation (useContactForm.ts 159-163)
ValidationError(validationResult) ==
  MkError("", "Validation failed", TRUE, "VALIDATION_ERROR", 0, validationResult.errors)

\* the call after `validate(data)` returned, when a validator is configured
\* (useContactForm.ts 156-157)
Validated(ch, data, validationResult) ==
  IF validate
    THEN [ch EXCEPT !.data = Some(data), !.checked = Some(data),
                    !.validation = Some(validationResult), !.began = <<"validate">>]
    ELSE [ch EXCEPT !.data = Some(data)]

\* the call after transformData, when it is configured, and the Loading
\* update (useContactForm.ts 176-186)
Transformed(ch) ==
  IF transformData
    THEN [ch EXCEPT !.payload = Some(Transform(ch.data[1])), !.transforms = @ + 1,
                    !.began = @ \o <<"transformData", "setState", "makeRequest">>]
    ELSE [ch EXCEPT !.payload = ch.data, !.began = @ \o <<"setState", "makeRequest">>]

\* sendEmail that cancels the request in flight before it starts its own
sendEmailCancelling(c, validationResult) ==
  /\ chains[c].pc = "unused"
  /\ \A b \in Chains : b < c => chains[b].pc # "unused"
  /\ IF validate /\ ~validationResult.valid
       THEN LET result == Rejected(ValidationError(validationResult)) IN
            /\ state' = StateAfter(result)
            /\ chains' = Set(c, Settled(Validated(chains[c], Form(c), validationResult), result,
                                         state'))
            /\ lastSettled' = Some(c)
            /\ UNCHANGED lastStarted
            /\ UNCHANGED abortControllerRef
       ELSE /\ FetchBudget(Cardinality(Started) + 1) <= MaxFetches
            /\ state' = LoadingState
            /\ chains' = [cancelled(abortControllerRef, chains).chains EXCEPT
                            ![c] = StartAttempt(Transformed(Validated(chains[c], Form(c), validationResult)), 0)]
            /\ abortControllerRef' = Some(<<c, 0>>)
            /\ lastStarted' = Some(<<c, 0>>)
            /\ UNCHANGED lastSettled
  /\ UNCHANGED <<utility, retries, validate, transformData, onSuccess>>

\* sendEmail up to its first await (useContactForm.ts 154-186)
sendEmail(c, validationResult) ==
  /\ chains[c].pc = "unused"
  /\ \A b \in Chains : b < c => chains[b].pc # "unused"
  /\ IF validate /\ ~validationResult.valid
       THEN LET result == Rejected(ValidationError(validationResult)) IN
            /\ state' = StateAfter(result)
            /\ chains' = Set(c, Settled(Validated(chains[c], Form(c), validationResult), result,
                                         state'))
            /\ lastSettled' = Some(c)
            /\ UNCHANGED lastStarted
            /\ UNCHANGED abortControllerRef
       ELSE /\ FetchBudget(Cardinality(Started) + 1) <= MaxFetches
            /\ state' = LoadingState
            /\ chains' = Set(c, StartAttempt(Transformed(Validated(chains[c], Form(c), validationResult)), 0))
            /\ abortControllerRef' = Some(<<c, 0>>)
            /\ lastStarted' = Some(<<c, 0>>)
            /\ UNCHANGED lastSettled
  /\ UNCHANGED <<utility, retries, validate, transformData, onSuccess>>

\* the race is won by fetch resolving (useContactForm.ts 88-101): with a
\* Response, whose body is read next, or with undefined, on which
\* `response.ok` throws into the catch block.  A fetch whose signal was
\* aborted may resolve all the same.
FetchResponds(c, response) ==
  /\ chains[c].pc = "fetch"
  /\ IF response = Undefined
       THEN Catch(c, Failed(chains[c]), NotAResponse)
       ELSE /\ chains' = Set(c, [Received(chains[c], response)
                                   EXCEPT !.pc = IF Ok(response) THEN "parseBody"
                                                 ELSE "parseError"])
            /\ UNCHANGED <<state, abortControllerRef, lastSettled, lastStarted>>
  /\ UNCHANGED <<utility, retries, validate, transformData, onSuccess>>

\* the race is won by fetch rejecting with a network error
FetchRejects(c, error) ==
  /\ chains[c].pc = "fetch"
  /\ Catch(c, Failed(chains[c]), error)
  /\ UNCHANGED <<utility, retries, validate, transformData, onSuccess>>

\* the race is won by fetch rejecting with an AbortError, as it does when its
\* signal is aborted; the catch block looks at the name of the error only
\* (useContactForm.ts 126)
FetchAborted(c) ==
  /\ chains[c].pc = "fetch"
  /\ Catch(c, [chains[c] EXCEPT !.gotAbort = TRUE], AbortError)
  /\ UNCHANGED <<utility, retries, validate, transformData, onSuccess>>

\* the race is won by createTimeoutPromise (useContactForm.ts 98); the fetch
\* call stays pending
Timeout(c) ==
  /\ chains[c].pc = "fetch"
  /\ Catch(c, Failed([chains[c] EXCEPT !.orphans = @ + 1]), TimeoutError)
  /\ UNCHANGED <<utility, retries, validate, transformData, onSuccess>>

\* LateFetch that hands the late response to the hook
LateFetchPublished(c) ==
  /\ chains[c].orphans > 0
  /\ chains' = Set(c, [chains[c] EXCEPT !.orphans = @ - 1])
  /\ state' = SuccessState([kind |-> "text", raw |-> "OK"])
  /\ UNCHANGED <<utility, retries, validate, transformData, onSuccess, abortControllerRef, lastSettled, lastStarted>>

\* a fetch call that lost the race completes, with a response or an error:
\* Promise.race has settled already and drops it (useContactForm.ts 88-99)
LateFetch(c) ==
  /\ chains[c].orphans > 0
  /\ chains' = Set(c, [chains[c] EXCEPT !.orphans = @ - 1])
  /\ UNCHANGED <<utility, retries, validate, transformData, onSuccess, state, abortControllerRef, lastSettled,
                 lastStarted>>

\* parseErrorResponse settles (useContactForm.ts 102-112).  When it returns:
\* retry on 5xx or throw the parsed error into the catch block.  When it
\* throws, its exception enters the catch block from line 102, before the
\* status is looked at.  readFails: the read of the body rejected.
ErrorParsed(c, readFails) ==
  LET ch       == chains[c]
      response == ch.response[1]
      parsed   == parseErrorResponse(response, readFails) IN
  /\ ch.pc = "parseError"
  /\ IF parsed.threw
       THEN Catch(c, IF response.status >= 500 THEN ch ELSE Failed(ch), parsed.value)
     ELSE IF RetryOnStatus(response.status, ch.attempt)
       THEN Wait(c, ch)
       ELSE Catch(c, ch, parsed.value)
  /\ UNCHANGED <<utility, retries, validate, transformData, onSuccess>>

\* ResponseData that parses every body as JSON
ResponseDataAsJson(response) == [kind |-> "json", raw |-> response.raw]

\* the body of a 2xx response as makeRequest returns it (useContactForm.ts 114-123):
\* raw parsed as JSON, or raw as text
ResponseData(response) ==
  [kind |-> IF IsJson(response) THEN "json" ELSE "text", raw |-> response.raw]

\* response.json() / response.text() settles (useContactForm.ts 114-123).
\* The read delivers the body, rejects with an AbortError, or rejects because
\* the body is unusable; an abort of the controller leaves all three open.
BodyRead(c, outcome) ==
  LET ch       == chains[c]
      response == ch.response[1] IN
  /\ ch.pc = "parseBody"
  /\ IF outcome = "aborted"
       THEN Catch(c, [ch EXCEPT !.gotAbort = TRUE], AbortError)
     ELSE IF outcome = "unusable"
       THEN Catch(c, ch, BodyUnusable)
     ELSE IF IsJson(response) /\ ~response.jsonOk
       THEN Catch(c, ch, SyntaxError)
     ELSE Finish(c, ch, Resolved(ResponseData(response)))
  /\ UNCHANGED <<utility, retries, validate, transformData, onSuccess>>

\* the handle after a retry has started: the nested makeRequest call stores
\* its controller, then the caller's finally block runs (useContactForm.ts
\* 84-85, 108, 134, 143-145)
HandleAfterRetry(c, attempt) == Null

\* sleep() resolves: `return makeRequest(data, attempt + 1)` runs the next
\* call up to its first await, then the finally block of this one
Retry(c) ==
  /\ chains[c].pc = "sleep"
  /\ chains' = Set(c, StartAttempt(chains[c], chains[c].attempt + 1))
  /\ abortControllerRef' = HandleAfterRetry(c, chains[c].attempt + 1)
  /\ lastStarted' = Some(<<c, chains[c].attempt + 1>>)
  /\ UNCHANGED <<utility, retries, validate, transformData, onSuccess, state, lastSettled>>

Next ==
  \/ reset
  \/ cancel
  \/ \E c \in Chains, v \in ValidationResults : sendEmail(c, v)
  \/ \E c \in Chains, r \in Resolutions : FetchResponds(c, r)
  \/ \E c \in Chains, e \in ThrownByFetch : FetchRejects(c, e)
  \/ \E c \in Chains : FetchAborted(c)
  \/ \E c \in Chains : Timeout(c)
  \/ \E c \in Chains : LateFetch(c)
  \/ \E c \in Chains, f \in BOOLEAN : ErrorParsed(c, f)
  \/ \E c \in Chains, o \in ReadOutcomes : BodyRead(c, o)
  \/ \E c \in Chains : Resume(c)
  \/ \E c \in Chains : Retry(c)

Spec == Init /\ [][Next]_vars

\* The hook with transformData configured.
TransformInit ==
  /\ retries \in 0..MaxRetries
  /\ validate \in BOOLEAN
  /\ transformData = TRUE
  /\ onSuccess = "returns"
  /\ state = InitialState
  /\ abortControllerRef = Null
  /\ chains = [c \in Chains |-> UnusedChain]
  /\ lastSettled = Null
  /\ lastStarted = Null
  /\ utility = Null

TransformSpec == TransformInit /\ [][Next]_vars

\* The hook with an onSuccess callback that returns or throws.
CallbackInit ==
  /\ retries \in 0..MaxRetries
  /\ validate \in BOOLEAN
  /\ transformData = FALSE
  /\ onSuccess \in {"returns", "throws"}
  /\ state = InitialState
  /\ abortControllerRef = Null
  /\ chains = [c \in Chains |-> UnusedChain]
  /\ lastSettled = Null
  /\ lastStarted = Null
  /\ utility = Null

CallbackSpec == CallbackInit /\ [][Next]_vars

\* the fetch of an attempt whose controller was aborted rejects
AbortedFetch(c) == chains[c].aborted /\ FetchAborted(c)

\* a body read of an attempt whose controller was aborted
AbortedRead(c) ==
  /\ chains[c].aborted
  /\ \/ \E o \in ReadOutcomes : BodyRead(c, o)
     \/ \E f \in BOOLEAN : ErrorParsed(c, f)

\* setTimeout callbacks run: the timeout of a pending race
\* (createTimeoutPromise) and the end of a backoff (sleep)
TimersFire == \A c \in Chains : WF_vars(Timeout(c)) /\ WF_vars(Retry(c))

\* the continuation of a settled promise runs: sendEmail resumes once
\* makeRequest has settled
ContinuationsRun == \A c \in Chains : WF_vars(Resume(c))

\* a fetch whose signal was aborted rejects, and the body read of an aborted
\* attempt ends
AbortsHonoured == \A c \in Chains : WF_vars(AbortedFetch(c)) /\ WF_vars(AbortedRead(c))

\* The hook with its timers firing.  The transport is left free: it need not
\* answer a request, and need not finish a body it began to deliver.
FairSpec == Init /\ [][Next]_vars /\ TimersFire /\ AbortsHonoured /\ ContinuationsRun

\* ---------------------------------------------------- utility functions
\* The exported functions of utils.ts and templates.ts, called on their own.
\* A behaviour is one call: the initial state holds the function and its
\* arguments, drawn from the sets below, and the action of the function
\* stores what it returns.

\* arguments of getExponentialBackoff (utils.test.ts 298-321)
AttemptIndexes == (0 - 2)..MaxAttemptIndex
BaseDelays == {0, 1, 3, 500, 1000, 1500, 2000, 2500, 5000}
BackoffCalls ==
  { [fn |-> "getExponentialBackoff", attempt |-> n, baseDelay |-> b, result |-> Null] :
      n \in AttemptIndexes, b \in BaseDelays }

\* arguments of isValidEmail
EmailCalls ==
  { [fn |-> "isValidEmail", email |-> e, result |-> Null] : e \in Strings(MaxEmailLen) }

\* arguments of validateContactForm: every field absent, or any short
\* string, or one of the longer strings below (utils.test.ts 188-296)
WellFormedEmail == <<"a", "@", "a", ".", "a">>
LongerStrings ==
  { WellFormedEmail, <<" ">> \o WellFormedEmail, WellFormedEmail \o <<" ">>,
    <<"a", " ", "@", "a", ".", "a">>, <<"a", "@", "a", "a">>, <<"a", ".", "a">>,
    <<" ", " ">>, <<" ", "a">>, <<"a", " ">> }
FieldValues == {Null} \cup {Some(v) : v \in Strings(MaxFieldLen) \cup LongerStrings}
ValidateCalls ==
  { [fn |-> "validateContactForm",
     data |-> [name |-> n, email |-> e, message |-> m], result |-> Null] :
      n \in FieldValues, e \in FieldValues, m \in FieldValues }

\* arguments of renderHtmlTemplate (templates.test.ts): every combination of
\* absent, empty and present fields with every option, and every short value
\* in every escaped position next to a plain or a marked-up message
PresenceValues == {Null, Some(<<>>), Some(<<"a">>)}
TemplateOptions ==
  { [theme |-> t, brandColor |-> b, logoUrl |-> l, footerText |-> f] :
      t \in {Null} \cup {Some(th) : th \in Themes},
      b \in {Null, Some("#FF5733")},
      l \in {Null, Some(""), Some("https://cdn.test/logo.svg")},
      f \in {Null, Some(<<"a">>)} }
NoOptions == [theme |-> Null, brandColor |-> Null, logoUrl |-> Null, footerText |-> Null]
PresenceCalls ==
  { [fn |-> "renderHtmlTemplate",
     data |-> [name |-> n, email |-> e, message |-> m, subject |-> s, phone |-> p],
     options |-> o, result |-> Null] :
      n \in PresenceValues, e \in PresenceValues, p \in PresenceValues,
      s \in PresenceValues, m \in {Null, Some(<<"a">>)}, o \in TemplateOptions }
Markup == <<"<", "a", ">", "&", "\"", "'">>
EntityText == <<"&", "a", "m", "p", ";", "&", "l", "t", ";">>
HtmlValues == HtmlStrings(MaxValueLen) \cup {Markup, EntityText}
Slots == {"name", "email", "message", "subject", "phone", "footerText"}
PlainData ==
  [name |-> Some(<<"a">>), email |-> Some(<<"a">>), message |-> Some(<<"a">>),
   subject |-> Null, phone |-> Null]
EscapeCalls ==
  { [fn |-> "renderHtmlTemplate",
     data |-> IF slot = "footerText"
                THEN [PlainData EXCEPT !.message = Some(m)]
                ELSE [[PlainData EXCEPT !.message = Some(m)] EXCEPT ![slot] = Some(v)],
     options |-> IF slot = "footerText"
                   THEN [NoOptions EXCEPT !.footerText = Some(v)] ELSE NoOptions,
     result |-> Null] :
      slot \in Slots, v \in HtmlValues, m \in {<<"a">>, <<"<", "a", ">">>} }
TemplateCalls == PresenceCalls \cup EscapeCalls

\* arguments of parseErrorResponse (utils.test.ts 51-143): a non-2xx
\* response with a JSON object, the JSON value null, a text or an unreadable
\* body
ErrorStatuses == {400, 404, 422, 500, 503}
ContentTypes == {JsonType, JsonUtf8, "text/plain", ""}
Bodies ==
  { [raw |-> "{\"message\":\"Invalid data\",\"code\":\"INVALID\"}", jsonOk |-> TRUE, jsonNull |-> FALSE,
     message |-> "Invalid data", code |-> "INVALID", errors |-> Null],
    [raw |-> "{\"message\":\"Validation failed\",\"code\":\"VALIDATION_ERROR\",\"errors\":{\"email\":[\"Email is invalid\"]}}",
     jsonOk |-> TRUE, jsonNull |-> FALSE, message |-> "Validation failed", code |-> "VALIDATION_ERROR",
     errors |-> FieldErrors],
    [raw |-> "{}", jsonOk |-> TRUE, jsonNull |-> FALSE, message |-> "", code |-> "", errors |-> Null],
    [raw |-> "{\"message\":\"\"}", jsonOk |-> TRUE, jsonNull |-> FALSE, message |-> "", code |-> "",
     errors |-> Null],
    [raw |-> "{\"code\":\"INVALID\"}", jsonOk |-> TRUE, jsonNull |-> FALSE, message |-> "", code |-> "INVALID",
     errors |-> Null],
    [raw |-> "null", jsonOk |-> TRUE, jsonNull |-> TRUE, message |-> "", code |-> "",
     errors |-> Null],
    [raw |-> "Internal error", jsonOk |-> FALSE, jsonNull |-> FALSE, message |-> "", code |-> "",
     errors |-> Null],
    [raw |-> "<html>", jsonOk |-> FALSE, jsonNull |-> FALSE, message |-> "", code |-> "", errors |-> Null],
    [raw |-> "", jsonOk |-> FALSE, jsonNull |-> FALSE, message |-> "", code |-> "", errors |-> Null] }
ParseCalls ==
  { [fn |-> "parseErrorResponse",
     response |-> MkResponse(st, t, b.raw, b.jsonOk, b.jsonNull, b.message, b.code, b.errors),
     readFails |-> f, result |-> Null] :
      st \in ErrorStatuses, t \in ContentTypes, b \in Bodies, f \in BOOLEAN }

UtilityCalls ==
  BackoffCalls \cup EmailCalls \cup ValidateCalls \cup TemplateCalls \cup ParseCalls

\* the hook is not used: its variables keep their initial values
UtilInit ==
  /\ retries = 0
  /\ validate = FALSE
  /\ transformData = FALSE
  /\ onSuccess = "returns"
  /\ state = InitialState
  /\ abortControllerRef = Null
  /\ chains = [c \in Chains |-> UnusedChain]
  /\ lastSettled = Null
  /\ lastStarted = Null
  /\ utility \in {Some(call) : call \in UtilityCalls}

\* the pending call is a call of `fn`
Pending(fn) == utility[1].fn = fn /\ utility[1].result = Null

\* the call returns `value`
Returns(value) ==
  /\ utility' = Some([utility[1] EXCEPT !.result = Some(value)])
  /\ UNCHANGED hookVars

\* getExponentialBackoff(attempt, baseDelay) runs
BackoffCalled ==
  /\ Pending("getExponentialBackoff")
  /\ Returns(getExponentialBackoff(utility[1].attempt, utility[1].baseDelay))

\* isValidEmail(email) runs
EmailCalled ==
  /\ Pending("isValidEmail")
  /\ Returns(isValidEmail(utility[1].email))

\* validateContactForm(data) runs
ValidateCalled ==
  /\ Pending("validateContactForm")
  /\ Returns(validateContactForm(utility[1].data))

\* renderHtmlTemplate(data, options) runs
TemplateCalled ==
  /\ Pending("renderHtmlTemplate")
  /\ Returns(renderHtmlTemplate(utility[1].data, utility[1].options))

\* parseErrorResponse(response) runs: it returns an error or throws
ParseCalled ==
  /\ Pending("parseErrorResponse")
  /\ Returns(parseErrorResponse(utility[1].response, utility[1].readFails))

UtilNext ==
  \/ BackoffCalled
  \/ EmailCalled
  \/ ValidateCalled
  \/ TemplateCalled
  \/ ParseCalled

UtilSpec == UtilInit /\ [][UtilNext]_vars

\* ------------------------------------------------------------------ claims
Settled_(c)  == chains[c].pc = "settled"
Unused(c)    == chains[c].pc = "unused"
Only(c)      == \A b \in Chains \ {c} : Unused(b)
AllSettled   == \A c \in Chains : Settled_(c) \/ Unused(c)

\* the body of `response` can be read: it is text, or well-formed JSON
Readable(response) == IsJson(response) => response.jsonOk

\* the states the claims name, written out
SuccessWith(responseData) ==
  [loading |-> FALSE, error |-> Null, data |-> Some(responseData), success |-> TRUE]
FailedWith(error) ==
  [loading |-> FALSE, error |-> Some(error), data |-> Null, success |-> FALSE]
IdleState == [loading |-> FALSE, error |-> Null, data |-> Null, success |-> FALSE]

\* the error of a cancelled request
RequestCancelled ==
  [name |-> "", message |-> "Request cancelled", isObject |-> TRUE,
   code |-> "NETWORK_ERROR", status |-> 0, errors |-> Null]

\* C1: a chain calls fetch at most retries + 1 times, whatever mix of 5xx
\* responses, thrown errors and timeouts its attempts meet.
C1_FetchBudget == \A c \in Chains : chains[c].fetches <= retries + 1

\* a chain that used its whole budget of 2 retries on one 5xx response and
\* one thrown error
C1_Witness ==
  \E c \in Chains : /\ retries = 2
                    /\ chains[c].fetches = retries + 1
                    /\ chains[c].got5xx = 1
                    /\ chains[c].failed = 2

\* C2: when the first k attempts of a chain failed (5xx response or thrown
\* non-abort error), k <= retries, and the body of the 2xx response to its
\* next attempt is read, makeRequest resolves with that body after exactly
\* k + 1 fetch calls; sendEmail resolves with it, calls onSuccess and sets the
\* state to loading = false, error = null, success = true with the body as
\* data.
C2_RetryThenSuccess ==
  [][\A c \in Chains :
       LET ch == chains[c]
           r  == ch.response[1] IN
       /\ (/\ BodyRead(c, "read") /\ Readable(r)
           /\ ch.got2xx = 1 /\ ch.failed = ch.attempt /\ ch.failed <= retries)
            => /\ chains'[c].returned = Resolved(ResponseData(r))
               /\ chains'[c].fetches = ch.failed + 1
       /\ (Resume(c) /\ ch.returned[1].ok)
            => /\ chains'[c].result = ch.returned
               /\ chains'[c].callback = "onSuccess"
               /\ state' = SuccessWith(ch.returned[1].data[1])
               /\ chains'[c].published = Some(state')]_vars

\* a 5xx response, then a thrown error, then a 2xx response
C2_Witness ==
  \E c \in Chains :
    /\ Settled_(c) /\ chains[c].result # Null /\ chains[c].result[1].ok
    /\ chains[c].failed = 2 /\ chains[c].got5xx = 1 /\ chains[c].got2xx = 1
    /\ chains[c].fetches = 3

\* C3: a chain all of whose attempts received a 5xx response called fetch
\* exactly retries + 1 times, then rejected with an error carrying the status,
\* set the state to that error with loading = false and success = false, and
\* called onError.
C3_RetriesExhausted ==
  \A c \in Chains :
    LET ch == chains[c]
        e  == ch.result[1].error[1] IN
    (Settled_(c) /\ ch.fetches >= 1 /\ ch.got5xx = ch.fetches)
    => /\ ch.fetches = retries + 1
       /\ ~ch.result[1].ok
       /\ e.status = ch.response[1].status
       /\ e.status >= 500
       /\ ch.published = Some(FailedWith(e))
       /\ ch.callback = "onError"

\* C4: a chain that received a non-2xx response with a status below 500 makes
\* no further attempt (one fetch call in all when it is the first outcome)
\* and rejects with an error carrying that status.
C4_ClientErrorNotRetried ==
  \A c \in Chains :
    LET ch == chains[c]
        r  == ch.response[1] IN
    (ch.response # Null /\ ~Ok(r) /\ r.status < 500)
    => /\ ch.pc \in {"parseError", "resume", "settled"}
       /\ ch.fetches = ch.attempt + 1
       /\ (ch.failed = 0 /\ ch.got2xx = 0 => ch.fetches = 1)
       /\ (Settled_(c) => /\ ~ch.result[1].ok
                          /\ ch.result[1].error[1].status = r.status)

\* C5: a sendEmail call whose validator returns valid = false calls fetch not
\* once, never sets loading, leaves the handle and the other chains alone,
\* sets the state to the VALIDATION_ERROR error with the validator's field
\* errors, calls onError with it and rejects with it.
C5_ValidationFailure ==
  [][\A c \in Chains :
       (/\ Unused(c) /\ chains'[c].validation # Null
        /\ ~chains'[c].validation[1].valid)
       => LET e == [name |-> "", message |-> "Validation failed", isObject |-> TRUE,
                    code |-> "VALIDATION_ERROR", status |-> 0,
                    errors |-> chains'[c].validation[1].errors] IN
          /\ chains'[c].pc = "settled"
          /\ chains'[c].fetches = 0
          /\ chains'[c].result = Rejected(e)
          /\ chains'[c].callback = "onError"
          /\ state' = FailedWith(e)
          /\ abortControllerRef' = abortControllerRef
          /\ \A b \in Chains \ {c} : chains'[b] = chains[b]]_vars

\* a failed validation while another chain awaits its first attempt, whose
\* controller is still the handle
C5_Witness ==
  \E c, b \in Chains :
    /\ retries = 2
    /\ chains[c].validation # Null /\ ~chains[c].validation[1].valid
    /\ chains[c].fetches = 0
    /\ chains[b].pc = "fetch" /\ abortControllerRef = Controller(b)
    /\ state.error # Null /\ state.error[1].code = "VALIDATION_ERROR"

\* C6: with one chain only, whenever an attempt of the chain awaits the
\* network (first attempt or retry), cancel() aborts that attempt's controller.
C6_CancelReachesEveryAttempt ==
  \A c \in Chains :
    (Only(c) /\ chains[c].pc = "fetch")
    => cancelled(abortControllerRef, chains).chains[c].aborted

\* C7: a chain whose attempt failed with an AbortError makes no further
\* attempt: makeRequest rejects with 'Request cancelled' / NETWORK_ERROR, and
\* sendEmail rejects with that error, sets the state to it with
\* loading = false, and calls onError.
C7_AbortNotRetried ==
  \A c \in Chains :
    chains[c].gotAbort
    => /\ chains[c].pc \in {"resume", "settled"}
       /\ chains[c].fetches = chains[c].attempt + 1
       /\ chains[c].returned = Rejected(RequestCancelled)
       /\ Settled_(c) => /\ chains[c].result = Rejected(RequestCancelled)
                         /\ chains[c].published = Some(FailedWith(RequestCancelled))
                         /\ chains[c].callback = "onError"

\* an abort of the first attempt with retries left, and the call rejected
C7_Witness ==
  \E c \in Chains :
    /\ chains[c].gotAbort /\ chains[c].attempt = 0 /\ retries = 2
    /\ Settled_(c) /\ state = FailedWith(RequestCancelled)

\* C8: cancel() never changes the SubmissionState; without a handle it changes
\* nothing at all; and after any cancel() a second one changes nothing.
C8_CancelWithoutHandle ==
  [][cancel =>
       /\ state' = state
       /\ (abortControllerRef = Null =>
             /\ abortControllerRef' = Null
             /\ chains' = chains)
       /\ cancelled(abortControllerRef', chains')
            = [chains |-> chains', ref |-> abortControllerRef']]_vars

\* no handle, after a success: cancel() from here is the step that leaves
\* every variable as it is
C8_Witness ==
  /\ abortControllerRef = Null
  /\ state.success
  /\ \E c \in Chains : Settled_(c) /\ chains[c].result[1].ok

\* C9: reset() sets the state to exactly the initial state.
C9_ResetToInitial == [][reset => state' = InitialState /\ state' = IdleState]_vars

\* the initial state again although one chain has succeeded and another one,
\* which set Loading when it started, is still in flight
C9_Witness ==
  /\ state = InitialState
  /\ \E c, b \in Chains : /\ Settled_(c) /\ chains[c].result[1].ok
                          /\ chains[b].pc = "fetch"

\* C10: when no chain is unsettled, loading = false.
C10_LoadingEnds == AllSettled => ~state.loading

\* two chains settled, one with an AbortError and one after a retried failure
C10_Witness ==
  /\ \A c \in Chains : Settled_(c)
  /\ \E c \in Chains : chains[c].gotAbort
  /\ \E c \in Chains : chains[c].failed > 0

\* C11: in every reachable state, error # null and success = true never hold
\* together, and loading = true implies error = null, data = null and
\* success = false.
C11_StateShape ==
  /\ ~(state.error # Null /\ state.success)
  /\ (state.loading => state.error = Null /\ state.data = Null /\ ~state.success)

\* loading again, set by a call that started after another chain succeeded
\* with a body
C11_Witness ==
  /\ state.loading
  /\ \E b, c \in Chains :
       /\ Settled_(b) /\ chains[b].result[1].ok /\ chains[b].published[1].data # Null
       /\ chains[c].pc = "fetch"

\* C12: every sendEmail call eventually settles, whatever the transport does,
\* provided timers fire.
C12_EverySendSettles ==
  \A c \in Chains : (~Unused(c)) ~> Settled_(c)

\* the error of a timed-out request, as the claims name it
RequestTimeout ==
  [name |-> "Error", message |-> "Request timeout", isObject |-> TRUE,
   code |-> "", status |-> 0, errors |-> Null]

\* C13: with retries = 0, when the timeout elapses on an attempt the transport
\* has not settled, makeRequest rejects with an error whose message is
\* 'Request timeout'; sendEmail rejects with it, and the state becomes
\* error # null, success = false, loading = false.
C13_TimeoutRejects ==
  [][\A c \in Chains :
       /\ (retries = 0 /\ Timeout(c))
            => /\ chains'[c].pc = "resume"
               /\ ~chains'[c].returned[1].ok
               /\ chains'[c].returned[1].error[1].message = "Request timeout"
       /\ (retries = 0 /\ Resume(c) /\ chains[c].returned = Rejected(RequestTimeout))
            => /\ chains'[c].pc = "settled"
               /\ chains'[c].result = Rejected(RequestTimeout)
               /\ chains'[c].callback = "onError"
               /\ state'.error = chains'[c].result[1].error
               /\ state'.error # Null /\ ~state'.success /\ ~state'.loading]_vars

\* a call that timed out on its only attempt, and the state it left
C13_Witness ==
  \E c \in Chains :
    /\ retries = 0 /\ Settled_(c) /\ chains[c].fetches = 1
    /\ chains[c].response = Null
    /\ chains[c].result = Rejected(RequestTimeout)
    /\ state = FailedWith(RequestTimeout)

\* C14: when an attempt fails with a thrown error that is not a cancellation
\* (a connection failure, a timeout, a value that is not an Error) and no
\* retry is left, sendEmail rejects with an error whose code is NETWORK_ERROR
\* and that has no status; the same error is stored in the state and passed
\* to onError.
C14_NetworkErrorCode ==
  [][\A c \in Chains :
       /\ (/\ chains[c].attempt >= retries
           /\ (Timeout(c) \/ \E e \in ThrownByFetch : FetchRejects(c, e)))
            => /\ chains'[c].pc = "resume"
               /\ ~chains'[c].returned[1].ok
               /\ chains'[c].returned[1].error[1].code = "NETWORK_ERROR"
               /\ chains'[c].returned[1].error[1].status = 0
       /\ (Resume(c) /\ ~chains[c].returned[1].ok)
            => /\ chains'[c].result = chains[c].returned
               /\ state'.error = chains'[c].result[1].error
               /\ chains'[c].callback = "onError"
               /\ chains'[c].passed = chains'[c].result[1].error]_vars

\* the body the claims expect of a 2xx response
ParsedJson(raw) == [kind |-> "json", raw |-> raw]
RawText(raw)    == [kind |-> "text", raw |-> raw]

\* C15: when the body of a 2xx response has been read, makeRequest resolves
\* with B, and the chain sets the state to loading = false, error = null,
\* data = B, success = true, calls onSuccess(B) and resolves with B, where B
\* is the JSON-parsed body if the content type contains application/json and
\* the raw text otherwise, also when no content type is declared.
C15_SuccessBody ==
  [][\A c \in Chains :
       LET r == chains[c].response[1]
           B == IF r.contentType \in {"application/json", "application/json; charset=utf-8"}
                  THEN ParsedJson(r.raw) ELSE RawText(r.raw) IN
       /\ (BodyRead(c, "read") /\ Readable(r))
            => /\ chains'[c].pc = "resume"
               /\ chains'[c].returned = Some([ok |-> TRUE, data |-> Some(B), error |-> Null])
       /\ (Resume(c) /\ chains[c].returned[1].ok)
            => /\ state' = SuccessWith(B)
               /\ chains'[c].pc = "settled"
               /\ chains'[c].callback = "onSuccess"
               /\ chains'[c].passed = Some(B)
               /\ chains'[c].result = Some([ok |-> TRUE, data |-> Some(B), error |-> Null])]_vars

\* a 2xx response without a content type, resolved with its text
C15_Witness ==
  \E c \in Chains :
    /\ Settled_(c) /\ chains[c].response # Null
    /\ chains[c].response[1].contentType = "" /\ Ok(chains[c].response[1])
    /\ chains[c].result = Resolved(RawText("OK"))
    /\ state = SuccessWith(RawText("OK"))

\* the call of chain c failed: its validation, or its network attempts (no
\* response to any of them, an abort, a last response that is not 2xx or
\* whose body cannot be read)
FailedCall(c) ==
  LET ch == chains[c] IN
  /\ Settled_(c)
  /\ \/ ch.validation # Null /\ ~ch.validation[1].valid
     \/ ch.fetches > 0 /\ ch.response = Null
     \/ ch.gotAbort
     \/ ch.response # Null /\ ~(Ok(ch.response[1]) /\ Readable(ch.response[1]))

\* C16: for every failing sendEmail call (validation, network or remote
\* failure) the value sendEmail rejects with, the argument of onError and the
\* error the call stored in the state are the same error value; no failure
\* settles the call without updating the state and rejecting.
C16_SameErrorEverywhere ==
  \A c \in Chains :
    LET ch == chains[c] IN
    /\ FailedCall(c) => ~ch.result[1].ok
    /\ (Settled_(c) /\ ~ch.result[1].ok)
         => /\ ch.result[1].error # Null
            /\ ch.callback = "onError"
            /\ ch.passed = ch.result[1].error
            /\ ch.published # Null
            /\ ch.published[1].error = ch.result[1].error
            /\ ch.published[1] = FailedWith(ch.result[1].error[1])

\* one call failed in validation, another with a remote failure
C16_Witness ==
  \E b, c \in Chains :
    /\ Settled_(b) /\ chains[b].callback = "onError"
    /\ chains[b].passed[1].code = "VALIDATION_ERROR"
    /\ Settled_(c) /\ chains[c].callback = "onError"
    /\ chains[c].passed[1].status = 500

\* positions of step `name` in the last turn of chain c
StepsNamed(c, name) == {i \in DOMAIN chains[c].steps : chains[c].steps[i] = name}

\* C17: within one sendEmail call the terminal state update comes before the
\* callback (onSuccess or onError), the callback before the promise settles,
\* and no step of the chain lies between the state update and the callback.
C17_UpdateCallbackSettle ==
  \A c \in Chains :
    Settled_(c)
    => \E i, j, k \in DOMAIN chains[c].steps :
         /\ StepsNamed(c, "setState") = {i}
         /\ StepsNamed(c, chains[c].callback) = {j}
         /\ StepsNamed(c, "settle") = {k}
         /\ j = i + 1
         /\ j < k

\* a resolved call and a rejected call, each with its three terminal steps
C17_Witness ==
  \E b, c \in Chains :
    /\ Settled_(b) /\ chains[b].steps = <<"setState", "onSuccess", "settle">>
    /\ Settled_(c) /\ chains[c].steps = <<"setState", "onError", "settle">>

\* C18: starting a sendEmail call while another is in flight neither aborts
\* nor suppresses that one: the new call leaves every other chain as it is
\* and issues a fetch of its own, and a call that settles settles with the
\* outcome of its own chain (its own response, one fetch per attempt) and
\* leaves the other chains as they are.
C18_ConcurrentCallsIndependent ==
  [][\A c \in Chains :
       /\ (chains[c].pc = "unused" /\ chains'[c].pc # "unused")
            => /\ \A b \in Chains \ {c} : chains'[b] = chains[b]
               /\ (chains'[c].pc = "fetch" => chains'[c].fetches = 1)
       /\ (chains[c].pc \notin {"unused", "settled"} /\ chains'[c].pc = "settled")
            => /\ \A b \in Chains \ {c} : chains'[b] = chains[b]
               /\ chains'[c].fetches = chains[c].attempt + 1
               /\ (chains'[c].result[1].ok
                     => chains'[c].result[1].data[1].raw = chains[c].response[1].raw)
               /\ (~chains'[c].result[1].ok /\ chains'[c].result[1].error[1].status # 0
                     => chains'[c].result[1].error[1].status = chains[c].response[1].status)
    ]_vars

\* the second call resolved with its text body on its first attempt, while
\* the first call, not aborted, is reading the JSON body of its first attempt
C18_Witness ==
  \E b, c \in Chains :
    /\ b < c
    /\ chains[b].pc = "parseBody" /\ chains[b].attempt = 0 /\ ~chains[b].aborted
    /\ IsJson(chains[b].response[1])
    /\ Settled_(c) /\ chains[c].fetches = 1 /\ chains[c].result[1].ok
    /\ chains[c].result[1].data[1].raw = "OK"

\* the terminal state a settled call wrote, from what it settled with
TerminalState(c) ==
  IF chains[c].result[1].ok
    THEN [loading |-> FALSE, error |-> Null, data |-> chains[c].result[1].data,
          success |-> TRUE]
    ELSE [loading |-> FALSE, error |-> chains[c].result[1].error, data |-> Null,
          success |-> FALSE]

\* C19: once all chains have settled, and no reset() came after the last
\* settlement, the published state is the terminal state written by the
\* chain that settled last, in whatever order the chains were started.
C19_LastSettledWins ==
  (AllSettled /\ lastSettled # Null) => state = TerminalState(lastSettled[1])

\* the call started first settled last, with a failure, after the call
\* started second had succeeded
C19_Witness ==
  /\ \A c \in Chains : Settled_(c)
  /\ lastSettled = Some(1)
  /\ chains[1].fetches > 0 /\ ~chains[1].result[1].ok
  /\ chains[2].result[1].ok
  /\ state.error # Null

\* C20: each concurrent chain has a handle of its own: when the request of
\* chain a settles while a chain b started later awaits a network attempt whose controller is
\* the handle, the settlement leaves the handle as it is, so that a cancel()
\* issued afterwards aborts the attempt of b.
C20_SettlementKeepsOtherHandle ==
  [][\A a, b \in Chains :
       (/\ a < b
        /\ chains[a].pc \notin {"unused", "resume", "settled"}
        /\ chains'[a].pc \in {"resume", "settled"}
        /\ chains[b].pc = "fetch" /\ abortControllerRef = Controller(b))
       => /\ abortControllerRef' = abortControllerRef
          /\ cancelled(abortControllerRef', chains').chains[b].aborted]_vars

\* C21: there is at most one handle at any time; a handle that is not null
\* is the controller of the network attempt that was started last; and so
\* cancel() aborts no attempt other than the one started last.
C21_HandleIsLatestAttempt ==
  /\ Len(abortControllerRef) <= 1
  /\ (abortControllerRef # Null => abortControllerRef = lastStarted)
  /\ \A c \in Chains :
       (cancelled(abortControllerRef, chains).chains[c].aborted /\ ~chains[c].aborted)
       => lastStarted = Some(<<c, chains[c].attempt>>)

\* two calls in flight: the handle is the controller of the second, and
\* cancel() would abort the second and not the first
C21_Witness ==
  /\ chains[1].pc = "fetch" /\ chains[2].pc = "fetch"
  /\ abortControllerRef = Some(<<2, 0>>)
  /\ cancelled(abortControllerRef, chains).chains[2].aborted
  /\ ~cancelled(abortControllerRef, chains).chains[1].aborted

\* C22: whenever every started sendEmail chain has settled (by success,
\* exhausted retries, non-retryable failure or cancellation), the handle is
\* null, under any interleaving of sendEmail, cancel and reset.
C22_HandleNullWhenSettled == AllSettled => abortControllerRef = Null

\* two calls that reached the network have settled, one with a response that
\* is not retried and one after its retries were exhausted
C22_Witness ==
  /\ abortControllerRef = Null
  /\ \A c \in Chains : Settled_(c) /\ chains[c].fetches > 0
  /\ \E c \in Chains : chains[c].response # Null /\ chains[c].response[1].status = 400
  /\ \E c \in Chains : chains[c].attempt = retries /\ chains[c].failed = retries + 1
                        /\ retries > 0

\* the state is Success or Failed
Terminal == state.success \/ state.error # Null

\* the terminal state a call writes when it settles with `result`
TerminalOf(result) ==
  IF result[1].ok
    THEN [loading |-> FALSE, error |-> Null, data |-> result[1].data, success |-> TRUE]
    ELSE [loading |-> FALSE, error |-> result[1].error, data |-> Null, success |-> FALSE]

\* C23 as claimed: once the state is Success or Failed, the only operation
\* that changes the state is reset(), which moves it to Idle.
C23_TerminalUntilReset ==
  [][(Terminal /\ state' # state) => (reset /\ state' = IdleState)]_vars

\* C23 as amended: once the state is Success or Failed, the only operations
\* that change it are reset(), which moves it to Idle, and sendEmail: a new
\* call, which moves it to Loading (or to Failed when its validation fails),
\* and the settlement of a call in flight, which writes that call's terminal
\* state.  cancel() and the other steps of a chain leave it as it is.
C23_TerminalUntilWritten ==
  [][(Terminal /\ state' # state)
       => \/ reset /\ state' = IdleState
          \/ \E c \in Chains :
               /\ chains[c].pc = "unused" /\ chains'[c].pc = "fetch"
               /\ state' = [loading |-> TRUE, error |-> Null, data |-> Null,
                            success |-> FALSE]
          \/ \E c \in Chains :
               /\ chains[c].pc # "settled" /\ chains'[c].pc = "settled"
               /\ state' = TerminalOf(chains'[c].result)]_vars

\* Loading, written over Failed by a new call: the first call failed, and no
\* reset() came before the second call started
C23_Witness ==
  /\ state.loading
  /\ lastSettled = Some(1) /\ ~chains[1].result[1].ok
  /\ chains[2].pc = "fetch" /\ chains[2].attempt = 0

\* chain c passed validation and has not settled: an attempt of it is
\* outstanding, or it waits in a backoff
InProgress(c) == chains[c].pc \in {"fetch", "parseError", "parseBody", "sleep"}

\* C24: in every reachable state in which a sendEmail chain that passed
\* validation is still unsettled, loading = true, whatever reset() and other
\* sendEmail calls were interleaved.
C24_LoadingWhileInProgress ==
  (\E c \in Chains : InProgress(c)) => state.loading

\* C25: within one chain the wait before retry k + 1, after the failure of
\* attempt k (counted from 0), is exactly retryDelay * 2^k, on the 5xx path
\* and on the thrown-error path alike, and the chain issues no fetch during
\* the wait: it has made the k + 1 fetch calls of attempts 0..k.
C25_BackoffDoubles ==
  \A c \in Chains :
    chains[c].pc = "sleep"
    => /\ chains[c].delay = [num |-> retryDelay * 2^(chains[c].attempt), den |-> 1]
       /\ chains[c].fetches = chains[c].attempt + 1

\* the wait of 4000 before the fourth attempt, after 5xx responses and thrown
\* errors
C25_Witness ==
  \E c \in Chains :
    /\ chains[c].pc = "sleep" /\ chains[c].attempt = 2
    /\ chains[c].delay = [num |-> 4000, den |-> 1]
    /\ chains[c].got5xx >= 1 /\ chains[c].failed > chains[c].got5xx

\* a call of `fn` has returned
Called(fn) == utility # Null /\ utility[1].fn = fn /\ utility[1].result # Null

\* C26: getExponentialBackoff(n, base) is base * 2^n for every attempt index
\* n >= 0 (0..10 and beyond) and every base delay, and for a negative n it is
\* base / 2^(-n): base / 2 for n = -1.
C26_BackoffFormula ==
  Called("getExponentialBackoff")
  => LET u == utility[1] IN
     /\ u.attempt >= 0 => u.result[1] = [num |-> u.baseDelay * 2^(u.attempt), den |-> 1]
     /\ u.attempt < 0 => /\ u.result[1].num * 2^(0 - u.attempt) = u.baseDelay * u.result[1].den
                         /\ u.result[1].den > 0
     /\ u.attempt = 0 - 1 /\ u.baseDelay = 1000 => u.result[1] = [num |-> 500, den |-> 1]

\* the call with n = -1 on an odd base, whose half is not a whole number
C26_Witness ==
  /\ Called("getExponentialBackoff")
  /\ utility[1].attempt = 0 - 1 /\ utility[1].baseDelay = 3
  /\ utility[1].result = Some([num |-> 3, den |-> 2])

\* an optional string is absent, empty or made of white space only
Blank(value) == value = Null \/ \A k \in DOMAIN value[1] : value[1][k] = " "

\* local@domain.tld: one @, no white space, something before the @, and
\* after it a dot with something on either side
WellFormed(email) ==
  /\ Cardinality({k \in DOMAIN email : email[k] = "@"}) = 1
  /\ \A k \in DOMAIN email : email[k] # " "
  /\ LET at == CHOOSE k \in DOMAIN email : email[k] = "@" IN
     /\ at > 1
     /\ \E dot \in (at + 2)..(Len(email) - 1) : email[dot] = "."

\* the fields of `data` that are invalid
InvalidFields(data) ==
  {f \in {"name", "email", "message"} : Blank(data[f])}
    \cup (IF ~Blank(data.email) /\ ~WellFormed(data.email[1]) THEN {"email"} ELSE {})

\* C27: validateContactForm returns valid = false with an errors map that has
\* a one-element message list for exactly the invalid fields (name, email or
\* message empty or white space only, email malformed), all of them at once,
\* and valid = true with errors undefined when no field is invalid; so valid
\* is true exactly when errors is absent.
C27_ExactlyTheInvalidFields ==
  Called("validateContactForm")
  => LET r == utility[1].result[1]
         I == InvalidFields(utility[1].data) IN
     /\ r.valid = (I = {})
     /\ r.valid = (r.errors = Null)
     /\ I # {} => /\ DOMAIN r.errors[1] = I
                  /\ \A f \in I : Len(r.errors[1][f]) = 1

\* a call with a white-space name, a malformed e-mail and no message: three
\* entries at once
C27_Witness ==
  /\ Called("validateContactForm")
  /\ utility[1].data = [name |-> Some(<<" ", " ">>), email |-> Some(<<"a", ".", "a">>),
                        message |-> Null]
  /\ DOMAIN utility[1].result[1].errors[1] = {"name", "email", "message"}

\* C28: isValidEmail accepts exactly the strings local@domain.tld whose three
\* parts are non-empty and free of white space and '@'; validateContactForm
\* reports 'Email is required' for an empty or white-space e-mail and 'Email
\* is invalid' for any other e-mail isValidEmail rejects, a well-formed
\* address with leading or trailing white space included.
C28_EmailPattern ==
  /\ Called("isValidEmail")
       => utility[1].result[1] = WellFormed(utility[1].email)
  /\ Called("validateContactForm")
       => LET email  == utility[1].data.email
              errors == utility[1].result[1].errors IN
          /\ Blank(email) => errors[1]["email"] = <<"Email is required">>
          /\ (~Blank(email) /\ ~WellFormed(email[1]))
               => errors[1]["email"] = <<"Email is invalid">>
          /\ (~Blank(email) /\ WellFormed(email[1]))
               => (errors = Null \/ "email" \notin DOMAIN errors[1])

\* a well-formed address with a leading space, reported as invalid
C28_Witness ==
  /\ Called("validateContactForm")
  /\ utility[1].data.email = Some(<<" ", "a", "@", "a", ".", "a">>)
  /\ utility[1].result[1].errors[1]["email"] = <<"Email is invalid">>

\* the entity that stands for a character, or the character itself
EntityOf(ch) ==
  CASE ch = "&"  -> <<"&", "a", "m", "p", ";">>
    [] ch = "<"  -> <<"&", "l", "t", ";">>
    [] ch = ">"  -> <<"&", "g", "t", ";">>
    [] ch = "\"" -> <<"&", "q", "u", "o", "t", ";">>
    [] ch = "'"  -> <<"&", "#", "3", "9", ";">>
    [] OTHER     -> <<ch>>

\* a value with each of its characters replaced once
RECURSIVE Escaped(_)
Escaped(s) == IF s = <<>> THEN <<>> ELSE EntityOf(Head(s)) \o Escaped(Tail(s))

\* `part` occurs in `whole`, piece for piece
Contains(whole, part) ==
  \E k \in 0..(Len(whole) - Len(part)) : SubSeq(whole, k + 1, k + Len(part)) = part

LabelOf(f) ==
  CASE f = "name"  -> <<"N", "a", "m", "e">>
    [] f = "email" -> <<"E", "m", "a", "i", "l">>
    [] f = "phone" -> <<"P", "h", "o", "n", "e">>

\* the value, or the empty string when it is absent
Text(value) == IF value = Null THEN <<>> ELSE value[1]

\* C29: in the output of renderHtmlTemplate the values of name, email,
\* phone, subject, message and footerText stand between their markup in
\* escaped form only, each of & < > " ' replaced once by its entity (no
\* entity escaped twice); no character < > " ' of a value reaches the
\* output and every & of the output begins an entity.
C29_OnlyEscapedValues ==
  Called("renderHtmlTemplate")
  => LET d   == utility[1].data
         o   == utility[1].options
         out == utility[1].result[1] IN
     /\ \A f \in {"name", "email", "phone"} :
          Truthy(d[f]) => Contains(out, <<RowOpen>> \o LabelOf(f) \o <<RowMid>>
                                          \o Escaped(d[f][1]) \o <<RowClose>>)
     /\ Truthy(d.subject)
          => Contains(out, <<HeadingStyle>> \o Escaped(d.subject[1]) \o <<HeadingClose>>)
     /\ Contains(out, <<MessageStyle>> \o Escaped(Text(d.message)) \o <<MessageClose>>)
     /\ Contains(out, <<FooterStyle>>
                        \o Escaped(IF o.footerText = Null THEN DefaultFooter
                                                          ELSE o.footerText[1])
                        \o <<FooterClose>>)
     /\ \A k \in DOMAIN out :
          /\ out[k] \notin {"<", ">", "\"", "'"}
          /\ out[k] = "&"
               => \E ch \in {"&", "<", ">", "\"", "'"} :
                    SubSeq(out, k, k + Len(EntityOf(ch)) - 1) = EntityOf(ch)

\* a name of <a>&"' and a message of <a> were rendered as entities
C29_Witness ==
  /\ Called("renderHtmlTemplate")
  /\ utility[1].data.name = Some(<<"<", "a", ">", "&", "\"", "'">>)
  /\ utility[1].data.message = Some(<<"<", "a", ">">>)
  /\ Contains(utility[1].result[1],
              <<MessageStyle, "&", "l", "t", ";", "a", "&", "g", "t", ";", MessageClose>>)

\* the output has a row labelled `label`
HasRow(out, label) ==
  \E k \in DOMAIN out :
    /\ out[k] = RowOpen
    /\ SubSeq(out, k + 1, k + Len(label)) = label
    /\ k + Len(label) + 1 \in DOMAIN out
    /\ out[k + Len(label) + 1] = RowMid

\* C30: renderHtmlTemplate emits a row for each of name, email and phone
\* exactly when that value is present and non-empty, an absent or empty one
\* giving neither row nor label, and the heading is 'New Contact Form
\* Submission' exactly when subject is absent or empty.
C30_RowsOnlyWhenPresent ==
  Called("renderHtmlTemplate")
  => LET d   == utility[1].data
         out == utility[1].result[1] IN
     /\ \A f \in {"name", "email", "phone"} :
          /\ HasRow(out, LabelOf(f)) <=> Truthy(d[f])
          /\ ~Truthy(d[f]) => ~Contains(out, LabelOf(f))
     /\ Cardinality({k \in DOMAIN out : out[k] = RowOpen})
          = Cardinality({f \in {"name", "email", "phone"} : Truthy(d[f])})
     /\ (\E k \in DOMAIN out : out[k] = DefaultHeading) <=> ~Truthy(d.subject)
     /\ Truthy(d.subject) => \E k \in DOMAIN out : out[k] = HeadingClose

\* a name, an empty e-mail, no phone and no subject: one row, default heading
C30_Witness ==
  /\ Called("renderHtmlTemplate")
  /\ utility[1].data.name = Some(<<"a">>)
  /\ utility[1].data.email = Some(<<>>)
  /\ utility[1].data.phone = Null
  /\ utility[1].data.subject = Null
  /\ HasRow(utility[1].result[1], <<"N", "a", "m", "e">>)
  /\ ~HasRow(utility[1].result[1], <<"E", "m", "a", "i", "l">>)
  /\ \E k \in DOMAIN utility[1].result[1] : utility[1].result[1][k] = DefaultHeading

\* C31: once cancel() has been called while a chain is unsettled, during an
\* attempt or during the backoff between two attempts, that chain issues no
\* further fetch call.
C31_CancelledNeverRetried ==
  [][\A c \in Chains :
       chains[c].aborted => chains'[c].fetches = chains[c].fetches]_vars

\* what reset() leaves alone in a call: its position, its attempt and its
\* controller
Request(ch) == [pc |-> ch.pc, attempt |-> ch.attempt, aborted |-> ch.aborted,
                fetches |-> ch.fetches, response |-> ch.response]

\* C32: reset() changes the state only: it aborts no attempt and leaves the
\* handle as it was; every call in flight, and so one that was in flight when
\* reset() was called, makes its terminal state update and invokes its
\* callback when it settles, so the Idle state is overwritten without any new
\* sendEmail call.
C32_ResetChangesStateOnly ==
  [][/\ reset => /\ abortControllerRef' = abortControllerRef
                 /\ \A c \in Chains : Request(chains'[c]) = Request(chains[c])
     /\ \A c \in Chains :
          (chains[c].pc = "resume" /\ chains'[c].pc = "settled")
          => /\ state' = TerminalOf(chains'[c].result)
             /\ state' # IdleState
             /\ chains'[c].published = Some(state')
             /\ chains'[c].steps = << "setState", chains'[c].callback, "settle" >>
             /\ chains'[c].callback \in {"onSuccess", "onError"}]_vars

\* reset() was called while the only call made awaited its response: the
\* state is Idle, the handle is still the controller of the attempt, which
\* was not aborted and now reads the body of its 2xx response
C32_Witness ==
  \E c \in Chains :
    /\ Only(c)
    /\ chains[c].pc = "parseBody"
    /\ ~chains[c].aborted
    /\ abortControllerRef = Some(<<c, 0>>)
    /\ state = IdleState

\* a call but for its count of fetch calls orphaned by a timeout
WithoutOrphans(ch) == [ch EXCEPT !.orphans = 0]

\* C33: when the timeout wins the race the fetch call is not aborted, and
\* its later completion changes neither the state nor the handle, invokes no
\* callback, starts no retry and leaves the outcome of the call as it was.
C33_LateFetchIgnored ==
  [][\A c \in Chains :
       /\ Timeout(c) => /\ chains'[c].aborted => chains[c].aborted
                        /\ chains'[c].orphans = chains[c].orphans + 1
       /\ LateFetch(c)
            => /\ state' = state
               /\ abortControllerRef' = abortControllerRef
               /\ \A b \in Chains : WithoutOrphans(chains'[b]) = WithoutOrphans(chains[b])]_vars

\* the only attempt of a call timed out, the call failed with 'Request
\* timeout', and its fetch has completed since
C33_Witness ==
  \E c \in Chains :
    /\ Settled_(c)
    /\ chains[c].fetches = 1
    /\ chains[c].result[1].error = Some(RequestTimeout)
    /\ chains[c].orphans = 0
    /\ state = TerminalOf(chains[c].result)

\* the request body that carries the data of the c-th call
BodyOf(c) ==
  [json |-> IF transformData THEN [transformed |-> [form |-> c]] ELSE [form |-> c]]

\* C34: within one sendEmail call validate runs first, on the untransformed
\* data; transformData is applied exactly once, and only if validation
\* passed; the state is set to Loading only after the transform; and every
\* attempt of the chain, the first and all retries, sends the same transformed
\* data as its body.
C34_TransformOnceSameBody ==
  \A c \in Chains :
    ~Unused(c)
    => LET ch == chains[c] IN
       /\ validate => ch.checked = Some([form |-> c]) /\ ch.began[1] = "validate"
       /\ ch.fetches = 0 => ch.transforms = 0 /\ ch.began \in {<<>>, <<"validate">>}
       /\ ch.fetches > 0
            => /\ ch.transforms = IF transformData THEN 1 ELSE 0
               /\ ch.began = (IF validate THEN <<"validate">> ELSE <<>>)
                               \o (IF transformData THEN <<"transformData">> ELSE <<>>)
                               \o <<"setState", "makeRequest">>
       /\ Len(ch.bodies) = ch.fetches
       /\ \A k \in DOMAIN ch.bodies : ch.bodies[k] = BodyOf(c)

\* a validated, transformed call that made three attempts
C34_Witness ==
  \E c \in Chains :
    /\ validate
    /\ transformData
    /\ chains[c].fetches = 3
    /\ chains[c].transforms = 1
    /\ chains[c].bodies = <<BodyOf(c), BodyOf(c), BodyOf(c)>>

\* C35: once an attempt of a chain has received a 2xx response the chain
\* issues no further fetch call, whatever the retry budget and whether or not
\* the body of the response can be parsed.
C35_NoFetchAfter2xx ==
  [][\A c \in Chains :
       chains[c].got2xx > 0 => chains'[c].fetches = chains[c].fetches]_vars

\* C36: for every sendEmail call onSuccess and onError are never both
\* invoked, and a call that has set the state to Success never sets it to
\* Failed afterwards, also when the onSuccess callback throws.
C36_OneCallbackOneOutcome ==
  \A c \in Chains :
    LET ch == chains[c] IN
    /\ ~(/\ \E i \in DOMAIN ch.steps : ch.steps[i] = "onSuccess"
         /\ \E j \in DOMAIN ch.steps : ch.steps[j] = "onError")
    /\ \A i, j \in DOMAIN ch.updates :
         (i < j /\ ch.updates[i].success) => ch.updates[j].error = Null

\* the number of times onError was invoked in a call's last turn
OnErrorCalls(ch) == Cardinality({i \in DOMAIN ch.steps : ch.steps[i] = "onError"})

\* C37: the failures of attempts that are retried are not published: between
\* its Loading update and its terminal update a chain makes no state update
\* and invokes no callback, so onError is invoked at most once per call, and
\* only for the terminal failure.
C37_IntermediateFailuresSilent ==
  [][\A c \in Chains :
       /\ (/\ InProgress(c)
           /\ chains'[c].pc # "settled"
           /\ <<chains'[c].pc, chains'[c].attempt>> # <<chains[c].pc, chains[c].attempt>>)
            => state' = state
       /\ chains'[c].pc # "settled"
            => /\ chains'[c].callback = ""
               /\ chains'[c].steps = <<>>
               /\ chains'[c].updates = <<>>
       /\ chains'[c].pc = "settled"
            => /\ OnErrorCalls(chains'[c]) <= 1
               /\ chains'[c].callback = "onError"
                    => /\ OnErrorCalls(chains'[c]) = 1
                       /\ chains'[c].passed = chains'[c].result[1].error
                       /\ chains'[c].updates
                            = << FailedState(chains'[c].result[1].error[1]) >>]_vars

\* a call failed three times, the last time for good: one onError
C37_Witness ==
  \E c \in Chains :
    /\ Settled_(c)
    /\ chains[c].fetches = 3
    /\ chains[c].failed = 3
    /\ chains[c].steps = << "setState", "onError", "settle" >>
    /\ state.error = chains[c].result[1].error

\* C38: cancel() itself never modifies the state, even with a request in
\* flight: while the attempt is aborted and makeRequest has not settled the
\* state stays as it was, loading = true, and it becomes Failed with 'Request
\* cancelled' only when sendEmail processes the rejection of the aborted
\* attempt.
C38_CancelLeavesState ==
  [][/\ cancel => state' = state
     /\ \A c \in Chains :
          /\ (/\ chains[c].aborted
              /\ ~reset /\ \A b \in Chains \ {c} : chains'[b].pc = "unused")
               => state' = state
          /\ (Resume(c) /\ chains[c].gotAbort)
               => state' = [loading |-> FALSE, error |-> Some(RequestCancelled),
                            data |-> Null, success |-> FALSE]
     /\ (/\ state' # state
         /\ state' = [loading |-> FALSE, error |-> Some(RequestCancelled),
                      data |-> Null, success |-> FALSE])
          => \E c \in Chains : Resume(c) /\ chains[c].gotAbort]_vars

\* after cancel(): the fetch is aborted and its rejection not processed yet,
\* the handle is cleared, and the state is still Loading
C38_Witness ==
  \E c \in Chains :
    /\ chains[c].pc = "fetch"
    /\ chains[c].aborted
    /\ abortControllerRef = Null
    /\ state = [loading |-> TRUE, error |-> Null, data |-> Null, success |-> FALSE]

\* C39: parseErrorResponse always returns an error with the status of the
\* response; its message is the message of the JSON body, or the text of a
\* body that is not JSON, 'An error occurred' when the body cannot be read,
\* and 'Request failed with status <status>' when that message is absent or
\* empty; code and field errors are those of the JSON body.
C39_ParsedError ==
  Called("parseErrorResponse")
  => LET response == utility[1].response
         error    == utility[1].result[1].value
         json     == response.contentType \in {"application/json",
                                               "application/json; charset=utf-8"}
         unread   == utility[1].readFails \/ (json /\ ~response.jsonOk)
         message  == IF unread THEN "An error occurred"
                     ELSE IF json THEN response.message ELSE response.raw
     IN
     /\ ~utility[1].result[1].threw
     /\ error.status = response.status
     /\ message # "" => error.message = message
     /\ message = "" => error.message = "Request failed with status "
                                           \o ToString(response.status)
     /\ error.code = IF json /\ ~unread THEN response.code ELSE ""
     /\ error.errors = IF json /\ ~unread THEN response.errors ELSE Null

====
